---- MODULE Spec2Model ----
(***************************************************************************)
(* LaTeX_preprocessor (src/__main__.py): flattening of a multi-file LaTeX  *)
(* project.  Text is a sequence of tokens: the literals the regular        *)
(* expressions of the program look for (\input{ , \includegraphics , the   *)
(* braces, the slash, the newline) are one token each, every other token   *)
(* is an ordinary character run without brace, slash or newline.           *)
(***************************************************************************)
EXTENDS Integers, Sequences, FiniteSets, TLC

VARIABLES disk, out, outExists, pc, error, return_content, passes,
          input_statements, splitted_file, new_file_data, log

vars == <<disk, out, outExists, pc, error, return_content, passes,
          input_statements, splitted_file, new_file_data, log>>

(***************************************************************************)
(* Tokens                                                                  *)
(***************************************************************************)
I == "\\input{"
G == "\\includegraphics"
O == "[width=1cm]"
NL == "\n"
LB == "{"
RB == "}"
SL == "/"
DOT == "."

MainPath == <<"main.tex">>
NoFiles == [p \in {} |-> <<>>]

(***************************************************************************)
(* Bounds                                                                  *)
(***************************************************************************)
MaxPieces == 3
MaxPasses == 3

Min(S) == CHOOSE x \in S : \A y \in S : x <= y
Max(S) == CHOOSE x \in S : \A y \in S : x >= y

\* the dot of a Python regular expression: any character but the newline
LineEnd(s, i) ==
  LET nls == {j \in i..Len(s) : s[j] = NL}
  IN IF nls = {} THEN Len(s) + 1 ELSE Min(nls)

\* closing braces that stand after position i on the line of position i
Closers(s, i) == {j \in (i+1)..(LineEnd(s, i) - 1) : s[j] = RB}

(***************************************************************************)
(* find_inputs_in_file: re.findall and re.split on the pattern of lines    *)
(* 122 and 124, the literal \input{ , a greedy run of any characters but   *)
(* the newline, and a closing brace: a match runs from \input{ to the LAST *)
(* closing brace of the line.                                              *)
(***************************************************************************)
input_match_end(s, i) == Max(Closers(s, i))

input_search(s, pos) ==
  LET starts == {i \in pos..Len(s) : s[i] = I /\ Closers(s, i) # {}}
  IN IF starts = {} THEN 0 ELSE Min(starts)

RECURSIVE re_findall_input(_, _)
re_findall_input(s, pos) ==
  LET i == input_search(s, pos)
  IN IF i = 0 THEN <<>>
     ELSE <<SubSeq(s, i + 1, input_match_end(s, i) - 1)>>
          \o re_findall_input(s, input_match_end(s, i) + 1)

RECURSIVE re_split_input(_, _)
re_split_input(s, pos) ==
  LET i == input_search(s, pos)
  IN IF i = 0 THEN <<SubSeq(s, pos, Len(s))>>
     ELSE <<SubSeq(s, pos, i - 1)>>
          \o re_split_input(s, input_match_end(s, i) + 1)

find_inputs_in_file(input_file) ==
  <<re_findall_input(input_file, 1), re_split_input(input_file, 1)>>

find_amount_of_inputs(input_file) == Len(find_inputs_in_file(input_file)[1])

(***************************************************************************)
(* get_data_from_file: the assert of line 29 and the read of lines 31-32.  *)
(* project_folder / Path(input_statement) is the statement itself, taken   *)
(* as a path below the project root.                                       *)
(***************************************************************************)
\* the assert of line 29 left out: a missing file reads as empty text
FileFound_unchecked(path) == TRUE

FileFound(path) == path \in DOMAIN disk

get_data_from_file(path) == IF path \in DOMAIN disk THEN disk[path] ELSE <<>>

(***************************************************************************)
(* parse_file, lines 69-83: one scan-and-splice pass                       *)
(***************************************************************************)
RECURSIVE splice_loop(_, _, _)
splice_loop(stmts, segs, k) ==
  IF k > Len(stmts) THEN <<>>
  ELSE segs[k] \o get_data_from_file(stmts[k]) \o splice_loop(stmts, segs, k + 1)

splice(stmts, segs) ==
  LET i == Len(stmts) - 1
  IN splice_loop(stmts, segs, 1)
     \o (IF i < Len(segs) - 1 THEN segs[Len(segs)] ELSE <<>>)

\* an if in the place of the while of line 66: one pass at most
LoopCond_once(content) == find_amount_of_inputs(content) > 0 /\ passes = 0

\* parse_file, line 66: the condition of the while loop
LoopCond(content) == find_amount_of_inputs(content) > 0

(***************************************************************************)
(* The pattern of find_graphics_in_file (line 96) and the head of the      *)
(* pattern of remove_path_graphics (line 89): \includegraphics , a greedy  *)
(* run, an opening brace, a greedy run, a closing brace, all on one line.  *)
(* Both runs are greedy: the opening brace is the LAST one of the line     *)
(* that still has a closing brace after it, the closing brace is the LAST  *)
(* of the line.  The brace that ends \input{ is an opening brace too.      *)
(***************************************************************************)
IsOpen(t) == t \in {LB, I}

Openers(s, i) ==
  {k \in (i+1)..(LineEnd(s, i) - 1) : IsOpen(s[k]) /\ \E j \in Closers(s, i) : j > k}

graphics_search(s, pos) ==
  LET starts == {i \in pos..Len(s) : s[i] = G /\ Openers(s, i) # {}}
  IN IF starts = {} THEN 0 ELSE Min(starts)

graphics_open(s, i) == Max(Openers(s, i))

graphics_close(s, i) == Max(Closers(s, i))

RECURSIVE re_findall_graphics(_, _)
re_findall_graphics(s, pos) ==
  LET i == graphics_search(s, pos)
  IN IF i = 0 THEN <<>>
     ELSE <<SubSeq(s, graphics_open(s, i) + 1, graphics_close(s, i) - 1)>>
          \o re_findall_graphics(s, graphics_close(s, i) + 1)

find_graphics_in_file(input_file) == re_findall_graphics(input_file, 1)

(***************************************************************************)
(* remove_path_graphics, lines 88-92: re.sub; the optional directory group *)
(* is greedy too and ends at the LAST slash between the two braces; the    *)
(* replacement is the macro, the size group, a brace, the path group and a *)
(* brace.                                                                  *)
(***************************************************************************)
graphics_slashes(s, i) ==
  {m \in (graphics_open(s, i) + 1)..(graphics_close(s, i) - 1) : s[m] = SL}

graphics_path(s, i) ==
  IF graphics_slashes(s, i) = {}
  THEN SubSeq(s, graphics_open(s, i) + 1, graphics_close(s, i) - 1)
  ELSE SubSeq(s, Max(graphics_slashes(s, i)) + 1, graphics_close(s, i) - 1)

graphics_replace(s, i) ==
  <<G>> \o SubSeq(s, i + 1, graphics_open(s, i) - 1) \o <<s[graphics_open(s, i)]>>
        \o graphics_path(s, i) \o <<RB>>

RECURSIVE re_sub_graphics(_, _)
re_sub_graphics(s, pos) ==
  LET i == graphics_search(s, pos)
  IN IF i = 0 THEN SubSeq(s, pos, Len(s))
     ELSE SubSeq(s, pos, i - 1) \o graphics_replace(s, i)
          \o re_sub_graphics(s, graphics_close(s, i) + 1)

remove_path_graphics(input) == re_sub_graphics(input, 1)

(***************************************************************************)
(* pathlib: Path.name and Path.glob, as lines 139, 142, 154 and 157 use    *)
(* them.  A pattern is the token sequence handed to glob; glob raises      *)
(* ValueError on the empty pattern and NotImplementedError on a pattern    *)
(* that starts with a slash.  The disk holds regular files only.           *)
(***************************************************************************)
Slashes(p) == {m \in 1..Len(p) : p[m] = SL}

BaseName(p) == IF Slashes(p) = {} THEN p ELSE SubSeq(p, Max(Slashes(p)) + 1, Len(p))

glob_error(file) ==
  IF file # <<>> /\ file[1] = SL THEN "NotImplementedError"
  ELSE IF file = <<>> THEN "ValueError"
  ELSE "none"

\* project_folder.glob of file followed by a dot and a star, line 139
glob_with_suffix(file) ==
  {p \in DOMAIN disk :
     /\ Len(p) > Len(file)
     /\ SubSeq(p, 1, Len(file)) = file
     /\ p[Len(file) + 1] = DOT
     /\ \A m \in (Len(file) + 1)..Len(p) : p[m] # SL}

\* project_folder.glob of file itself, line 139
glob_exact(file) == {p \in DOMAIN disk : p = file}

possible_files(file) == glob_with_suffix(file) \cup glob_exact(file)

\* shutil.copyfile of every file of S to the output folder under its name
copy_files(o, S) ==
  [n \in DOMAIN o \cup {BaseName(p) : p \in S} |->
     IF \E p \in S : BaseName(p) = n
     THEN disk[CHOOSE p \in S : BaseName(p) = n]
     ELSE o[n]]

Logged(lg, op, S, data) ==
  IF S = {} THEN lg ELSE Append(lg, [op |-> op, files |-> S, data |-> data])

(***************************************************************************)
(* extract_graphics_files, lines 136-144: the loop over the references in  *)
(* textual order; an exception of glob ends the loop where it is raised    *)
(* and keeps the copies made before.                                       *)
(***************************************************************************)
RECURSIVE extract_loop(_, _, _, _)
extract_loop(files, k, o, lg) ==
  IF k > Len(files) THEN [out |-> o, log |-> lg, error |-> "none"]
  ELSE IF glob_error(files[k]) # "none"
       THEN [out |-> o, log |-> lg, error |-> glob_error(files[k])]
       ELSE extract_loop(files, k + 1, copy_files(o, possible_files(files[k])),
                         Logged(lg, "copy", possible_files(files[k]), <<>>))

extract_graphics_files(data, o, lg) == extract_loop(find_graphics_in_file(data), 1, o, lg)

\* a recursive search in the place of the glob of line 154
bib_files_recursive ==
  {p \in DOMAIN disk : Len(p) >= 2 /\ p[Len(p) - 1] = DOT /\ p[Len(p)] = "bib"}

\* copy_bib_files, line 154: project_folder.glob of *.bib, names of the root only
bib_files ==
  {p \in DOMAIN disk :
     Len(p) >= 2 /\ p[Len(p) - 1] = DOT /\ p[Len(p)] = "bib" /\ Slashes(p) = {}}

\* main, line 177: output_folder / Path(input_file.name)
output_file == BaseName(MainPath)

\* the inlined text written in the place of the rewritten one
output_data_inlined == return_content

\* main, line 179: the data handed to write_file
output_data == new_file_data

write_file(o, name, data) ==
  [n \in DOMAIN o \cup {name} |-> IF n = name THEN data ELSE o[n]]

(***************************************************************************)
(* The projects the runs start from.  A document is a concatenation of at  *)
(* most MaxPieces pieces.  The files x and y are absent, plain text, or    *)
(* hold an \input of their own (nested, or cyclic).  The project root      *)
(* holds main.tex, r.bib, the directory s with s/t.bib, and some of the    *)
(* image files; the output folder is absent, or holds files of an earlier  *)
(* run.                                                                    *)
(***************************************************************************)
RECURSIVE Concats(_, _)
Concats(pieces, n) ==
  IF n = 0 THEN {<<>>}
  ELSE Concats(pieces, n - 1) \cup {d \o q : d \in Concats(pieces, n - 1), q \in pieces}

InputPieces == {<<"a">>, <<NL>>, <<I, "x", RB>>, <<I, "y", RB>>, <<RB>>}

GraphicsPieces ==
  {<<"a">>, <<NL>>, <<LB, RB>>,
   <<G, LB, "f", SL, "p", RB>>, <<G, O, LB, "q", RB>>,
   <<G, LB, "f", SL, "p", DOT, "png", RB>>, <<G, LB, SL, "f", RB>>}

Example1 == <<"A", I, "x", RB, "B", I, "y", RB, "C">>

InputDocs == Concats(InputPieces, MaxPieces) \cup {Example1}

GraphicsDocs == Concats(GraphicsPieces, MaxPieces)

XChoices == {{}, {<<"X">>}, {<<I, "y", RB>>}, {<<"X", NL, I, "x", RB>>}}

YChoices == {{}, {<<"Y">>}, {<<I, "x", RB>>}}

Images == {<<"f", SL, "p", DOT, "png">>, <<"f", SL, "p", DOT, "pdf">>, <<"q", DOT, "png">>}

Bibs == {<<"r", DOT, "bib">>, <<"e", DOT, "bib">>, <<"s", SL, "t", DOT, "bib">>}

Bytes(p) == <<"bytes of">> \o p

OldOut ==
  [n \in {<<"r", DOT, "bib">>, <<"keep">>, <<"main.tex">>} |-> <<"old">> \o n]

File(path, choice) == [p \in {path : c \in choice} |-> CHOOSE c \in choice : TRUE]

InitRun ==
  /\ pc = "start"
  /\ error = "none"
  /\ return_content = <<>>
  /\ passes = 0
  /\ input_statements = <<>>
  /\ splitted_file = <<>>
  /\ new_file_data = <<>>
  /\ log = <<>>
  /\ \/ outExists = FALSE /\ out = NoFiles
     \/ outExists = TRUE /\ out = OldOut

InitInputs ==
  /\ \E m \in {{}} \cup {{d} : d \in InputDocs}, x \in XChoices, y \in YChoices :
       disk = File(MainPath, m) @@ File(<<"x">>, x) @@ File(<<"y">>, y)
              @@ [p \in Bibs |-> Bytes(p)]
  /\ InitRun

InitGraphics ==
  /\ \E d \in GraphicsDocs, imgs \in SUBSET Images :
       disk = File(MainPath, {d}) @@ [p \in imgs \cup Bibs |-> Bytes(p)]
  /\ InitRun

Init == InitInputs \/ InitGraphics

(***************************************************************************)
(* main, lines 167-180, one action per step                                *)
(***************************************************************************)
\* make_folder, lines 13-16
MakeFolder ==
  /\ pc = "start"
  /\ outExists' = TRUE
  /\ pc' = "parse"
  /\ UNCHANGED <<disk, out, error, return_content, passes, input_statements,
                 splitted_file, new_file_data, log>>

\* parse_file, lines 61-64: the main file is read
ParseOpen ==
  /\ pc = "parse"
  /\ FileFound(MainPath)
  /\ return_content' = get_data_from_file(MainPath)
  /\ pc' = "loop"
  /\ UNCHANGED <<disk, out, outExists, error, passes, input_statements,
                 splitted_file, new_file_data, log>>

\* parse_file, lines 61-62 and 29: the main file is not there
ParseOpenFail ==
  /\ pc = "parse"
  /\ ~FileFound(MainPath)
  /\ pc' = "aborted"
  /\ error' = "AssertionError"
  /\ UNCHANGED <<disk, out, outExists, return_content, passes, input_statements,
                 splitted_file, new_file_data, log>>

\* parse_file, lines 66-83: one pass of the while loop
ParsePass ==
  /\ pc = "loop"
  /\ LoopCond(return_content)
  /\ passes < MaxPasses
  /\ LET found == find_inputs_in_file(return_content)
     IN /\ \A k \in 1..Len(found[1]) : FileFound(found[1][k])
        /\ input_statements' = found[1]
        /\ splitted_file' = found[2]
        /\ return_content' = splice(found[1], found[2])
  /\ passes' = passes + 1
  /\ UNCHANGED <<disk, out, outExists, pc, error, new_file_data, log>>

\* parse_file, line 76 and line 29: an input of the pass is not there
ParsePassFail ==
  /\ pc = "loop"
  /\ LoopCond(return_content)
  /\ LET found == find_inputs_in_file(return_content)
     IN /\ \E k \in 1..Len(found[1]) : ~FileFound(found[1][k])
        /\ input_statements' = found[1]
        /\ splitted_file' = found[2]
  /\ pc' = "aborted"
  /\ error' = "AssertionError"
  /\ UNCHANGED <<disk, out, outExists, return_content, passes, new_file_data, log>>

\* parse_file, lines 66 and 85, and main, line 171
ParseReturn ==
  /\ pc = "loop"
  /\ ~LoopCond(return_content)
  /\ new_file_data' = return_content
  /\ pc' = "extract"
  /\ UNCHANGED <<disk, out, outExists, error, return_content, passes,
                 input_statements, splitted_file, log>>

\* main, line 173
ExtractGraphics ==
  /\ pc = "extract"
  /\ LET r == extract_graphics_files(new_file_data, out, log)
     IN /\ r.error = "none"
        /\ out' = r.out
        /\ log' = r.log
  /\ pc' = "rewrite"
  /\ UNCHANGED <<disk, outExists, error, return_content, passes, input_statements,
                 splitted_file, new_file_data>>

\* main, line 173: glob raises at line 139
ExtractGraphicsFail ==
  /\ pc = "extract"
  /\ LET r == extract_graphics_files(new_file_data, out, log)
     IN /\ r.error # "none"
        /\ out' = r.out
        /\ log' = r.log
        /\ error' = r.error
  /\ pc' = "aborted"
  /\ UNCHANGED <<disk, outExists, return_content, passes, input_statements,
                 splitted_file, new_file_data>>

\* main, line 175
RemovePathGraphics ==
  /\ pc = "rewrite"
  /\ new_file_data' = remove_path_graphics(new_file_data)
  /\ pc' = "write"
  /\ UNCHANGED <<disk, out, outExists, error, return_content, passes,
                 input_statements, splitted_file, log>>

\* main, lines 177-179
WriteFile ==
  /\ pc = "write"
  /\ out' = write_file(out, output_file, output_data)
  /\ log' = Logged(log, "write", {output_file}, output_data)
  /\ pc' = "bib"
  /\ UNCHANGED <<disk, outExists, error, return_content, passes, input_statements,
                 splitted_file, new_file_data>>

\* main, line 180, and copy_bib_files, lines 154-157
CopyBibFiles ==
  /\ pc = "bib"
  /\ out' = copy_files(out, bib_files)
  /\ log' = Logged(log, "bib", bib_files, <<>>)
  /\ pc' = "done"
  /\ UNCHANGED <<disk, outExists, error, return_content, passes, input_statements,
                 splitted_file, new_file_data>>

Next ==
  \/ MakeFolder
  \/ ParseOpen
  \/ ParseOpenFail
  \/ ParsePass
  \/ ParsePassFail
  \/ ParseReturn
  \/ ExtractGraphics
  \/ ExtractGraphicsFail
  \/ RemovePathGraphics
  \/ WriteFile
  \/ CopyBibFiles

Spec == Init /\ [][Next]_vars

TypeOK ==
  /\ pc \in {"start", "parse", "loop", "extract", "rewrite", "write", "bib", "done", "aborted"}
  /\ passes \in 0..MaxPasses
  /\ error \in {"none", "AssertionError", "ValueError", "NotImplementedError"}

(***************************************************************************)
(* The directives as the specification reads them: the argument of an      *)
(* \input runs to the FIRST closing brace of its line, and an              *)
(* \includegraphics is the macro, an optional option group, an opening     *)
(* brace and a token that runs to the first closing brace of the line.     *)
(***************************************************************************)
SpecInputSearch(s, pos) ==
  LET starts == {i \in pos..Len(s) : s[i] = I /\ Closers(s, i) # {}}
  IN IF starts = {} THEN 0 ELSE Min(starts)

RECURSIVE SpecRefs(_, _)
SpecRefs(s, pos) ==
  LET i == SpecInputSearch(s, pos)
  IN IF i = 0 THEN <<>>
     ELSE <<SubSeq(s, i + 1, Min(Closers(s, i)) - 1)>>
          \o SpecRefs(s, Min(Closers(s, i)) + 1)

RECURSIVE SpecSegments(_, _)
SpecSegments(s, pos) ==
  LET i == SpecInputSearch(s, pos)
  IN IF i = 0 THEN <<SubSeq(s, pos, Len(s))>>
     ELSE <<SubSeq(s, pos, i - 1)>> \o SpecSegments(s, Min(Closers(s, i)) + 1)

Content(path) == IF path \in DOMAIN disk THEN disk[path] ELSE <<>>

RECURSIVE SpecInterleave(_, _, _)
SpecInterleave(refs, segs, k) ==
  IF k > Len(refs) THEN segs[k]
  ELSE segs[k] \o Content(refs[k]) \o SpecInterleave(refs, segs, k + 1)

SpecPass(s) == SpecInterleave(SpecRefs(s, 1), SpecSegments(s, 1), 1)

RECURSIVE SpecFlatten(_, _)
SpecFlatten(s, fuel) ==
  IF SpecRefs(s, 1) = <<>> \/ fuel = 0 THEN s ELSE SpecFlatten(SpecPass(s), fuel - 1)

\* depth of the inclusion graph below a text; -1 when a referenced file is
\* missing or the graph has a cycle (a chain longer than the number of files)
RECURSIVE SpecDepth(_, _)
SpecDepth(s, fuel) ==
  LET refs == SpecRefs(s, 1)
      below == {IF refs[k] \in DOMAIN disk /\ fuel > 0
                THEN SpecDepth(disk[refs[k]], fuel - 1) ELSE -1 : k \in 1..Len(refs)}
  IN IF refs = <<>> THEN 0
     ELSE IF -1 \in below THEN -1
     ELSE 1 + Max(below)

MainDepth ==
  IF MainPath \in DOMAIN disk
  THEN SpecDepth(disk[MainPath], Cardinality(DOMAIN disk))
  ELSE -1

ParseEnded == pc \in {"extract", "rewrite", "write", "bib", "done", "aborted"}

ParseReturned == ParseEnded /\ error # "AssertionError"

RightBraces(s) == {j \in 1..Len(s) : s[j] = RB}

\* every closing brace of the text closes an \input directive
StrayFree(s) == Cardinality(RightBraces(s)) = Len(SpecRefs(s, 1))

(***************************************************************************)
(* C1  Order preservation.  When parse_file has ended on a main file that  *)
(* holds two or more \input directives and no other closing brace, with    *)
(* every file of its acyclic inclusion graph present, it has returned, and *)
(* the buffer is the main text with every directive replaced, left to      *)
(* right, by the content of its own file; A\input{x}B\input{y}C with x = X *)
(* and y = Y gives AXBYC.                                                  *)
(***************************************************************************)
C1_OrderPreservation ==
  /\ (/\ ParseEnded
      /\ MainDepth >= 0
      /\ StrayFree(disk[MainPath])
      /\ Len(SpecRefs(disk[MainPath], 1)) >= 2)
     => (/\ ParseReturned
         /\ return_content = SpecFlatten(disk[MainPath], MaxPasses))
  /\ (/\ ParseEnded
      /\ MainDepth >= 0
      /\ disk[MainPath] = Example1
      /\ disk[<<"x">>] = <<"X">>
      /\ disk[<<"y">>] = <<"Y">>)
     => return_content = <<"A", "X", "B", "Y", "C">>

(***************************************************************************)
(* C2  Nested inclusion.  Whenever parse_file has returned, the buffer     *)
(* holds no \input directive, neither as the program scans them nor as the *)
(* specification reads them, and it is the main text with the content of   *)
(* every file, nested ones included, in the place of its directive.        *)
(***************************************************************************)
C2_NoResidualInput ==
  ParseReturned =>
    /\ find_amount_of_inputs(return_content) = 0
    /\ SpecRefs(return_content, 1) = <<>>
    /\ return_content = SpecFlatten(disk[MainPath], MaxPasses)

\* a run that returned after two passes: x was included and held an \input of y
W_C2_Nested ==
  /\ pc = "done"
  /\ passes = 2
  /\ disk[<<"x">>] = <<I, "y", RB>>
  /\ \E j \in 1..Len(return_content) : return_content[j] = "Y"

(***************************************************************************)
(* C3  Fixed-point termination.  When parse_file has ended on a main file  *)
(* whose inclusion graph is acyclic, of depth D, with every referenced     *)
(* file present, it has returned after exactly D passes, and after no pass *)
(* exactly when the main file holds no \input.                             *)
(***************************************************************************)
C3_FixedPointPasses ==
  (ParseEnded /\ MainDepth >= 0) =>
    /\ ParseReturned
    /\ passes = MainDepth
    /\ (passes = 0 <=> SpecRefs(disk[MainPath], 1) = <<>>)

(***************************************************************************)
(* C9  Non-greedy capture.  Whenever the loop of parse_file scans the      *)
(* buffer, find_inputs_in_file gives, for every directive, the argument up *)
(* to the first closing brace that follows it, and the text after that     *)
(* brace stays in the following segment.                                   *)
(***************************************************************************)
C9_NonGreedyCapture ==
  pc = "loop" =>
    find_inputs_in_file(return_content)
      = <<SpecRefs(return_content, 1), SpecSegments(return_content, 1)>>

(***************************************************************************)
(* C4  Missing-input failure.  When the main file is missing, or the       *)
(* buffer of a pass holds an \input (as scanned or as specified) of a file *)
(* that is missing, the next step of the run is the abort with the         *)
(* assertion error; and whenever the run has aborted so, nothing has been  *)
(* written or copied: the output folder holds what it held at the start.   *)
(***************************************************************************)
MissingRef(s) ==
  \/ \E k \in 1..Len(SpecRefs(s, 1)) : SpecRefs(s, 1)[k] \notin DOMAIN disk
  \/ \E k \in 1..Len(re_findall_input(s, 1)) : re_findall_input(s, 1)[k] \notin DOMAIN disk

C4_MissingInputAborts ==
  /\ [](error = "AssertionError" => (pc = "aborted" /\ log = <<>> /\ out \in {NoFiles, OldOut}))
  /\ [][(\/ pc = "parse" /\ MainPath \notin DOMAIN disk
         \/ pc = "loop" /\ MissingRef(return_content))
        => (pc' = "aborted" /\ error' = "AssertionError" /\ log' = <<>>)]_vars

\* the abort on a missing file that a file included by an earlier pass names
W_C4_NestedMissing ==
  /\ pc = "aborted"
  /\ error = "AssertionError"
  /\ passes >= 1
  /\ <<"y">> \notin DOMAIN disk
  /\ input_statements = <<(<<"y">>)>>
  /\ outExists

(***************************************************************************)
(* The graphics directives as the specification reads them                 *)
(***************************************************************************)
SpecGraphicsOpen(s, i) ==
  IF i + 1 <= Len(s) /\ s[i + 1] = LB THEN i + 1
  ELSE IF i + 2 <= Len(s) /\ s[i + 1] = O /\ s[i + 2] = LB THEN i + 2
  ELSE 0

IsSpecGraphics(s, i) ==
  /\ s[i] = G
  /\ SpecGraphicsOpen(s, i) # 0
  /\ Closers(s, SpecGraphicsOpen(s, i)) # {}

SpecGraphicsSearch(s, pos) ==
  LET starts == {i \in pos..Len(s) : IsSpecGraphics(s, i)}
  IN IF starts = {} THEN 0 ELSE Min(starts)

SpecGraphicsClose(s, i) == Min(Closers(s, SpecGraphicsOpen(s, i)))

RECURSIVE SpecGraphicsTokens(_, _)
SpecGraphicsTokens(s, pos) ==
  LET i == SpecGraphicsSearch(s, pos)
  IN IF i = 0 THEN <<>>
     ELSE <<SubSeq(s, SpecGraphicsOpen(s, i) + 1, SpecGraphicsClose(s, i) - 1)>>
          \o SpecGraphicsTokens(s, SpecGraphicsClose(s, i) + 1)

RECURSIVE SpecRewrite(_, _)
SpecRewrite(s, pos) ==
  LET i == SpecGraphicsSearch(s, pos)
  IN IF i = 0 THEN SubSeq(s, pos, Len(s))
     ELSE SubSeq(s, pos, SpecGraphicsOpen(s, i))
          \o BaseName(SubSeq(s, SpecGraphicsOpen(s, i) + 1, SpecGraphicsClose(s, i) - 1))
          \o <<RB>> \o SpecRewrite(s, SpecGraphicsClose(s, i) + 1)

\* the file p of the project is the token itself or the token with an extension
SpecMatches(token, p) ==
  \/ p = token
  \/ /\ Len(p) > Len(token)
     /\ SubSeq(p, 1, Len(token)) = token
     /\ p[Len(token) + 1] = DOT
     /\ \A m \in (Len(token) + 1)..Len(p) : p[m] # SL

LogIndexes(op) == {k \in 1..Len(log) : log[k].op = op}

(***************************************************************************)
(* C5  Graphics path flattening.  Once remove_path_graphics has run, the   *)
(* text is the inlined text with the token of every \includegraphics       *)
(* directive replaced by its final path component and every other          *)
(* character, macro and option group included, unchanged.                  *)
(***************************************************************************)
C5_PathFlattening ==
  pc \in {"write", "bib", "done"} => new_file_data = SpecRewrite(return_content, 1)

(***************************************************************************)
(* C6  Asset copy completeness.  After a successful run, for every         *)
(* \includegraphics directive of the inlined text and every file of the    *)
(* project that is its token, or its token with an extension, the output   *)
(* folder holds a file of that base name with the content of that file.    *)
(***************************************************************************)
C6_AssetCopyComplete ==
  pc = "done" =>
    \A k \in 1..Len(SpecGraphicsTokens(return_content, 1)) :
      \A p \in DOMAIN disk :
        SpecMatches(SpecGraphicsTokens(return_content, 1)[k], p)
          => (BaseName(p) \in DOMAIN out /\ out[BaseName(p)] = disk[p])

(***************************************************************************)
(* C7  Dangling reference tolerance.  When the inlined text holds an       *)
(* \includegraphics directive whose token matches no file of the project,  *)
(* the steps after parse_file raise no error, and the run ends with the    *)
(* flattened document in the output folder.                                *)
(***************************************************************************)
HasDangling(s) ==
  \E k \in 1..Len(SpecGraphicsTokens(s, 1)) :
    \A p \in DOMAIN disk : ~SpecMatches(SpecGraphicsTokens(s, 1)[k], p)

C7_DanglingTolerated ==
  (ParseReturned /\ pc # "extract" /\ HasDangling(return_content)) =>
    /\ error = "none"
    /\ pc # "aborted"
    /\ pc = "done" => (output_file \in DOMAIN out /\ out[output_file] = new_file_data)

(***************************************************************************)
(* C8  Bibliography copy.  After a successful run every .bib file that     *)
(* lies directly in the project root is in the output folder under its     *)
(* name with the content of the source, also where a file of that name was *)
(* there before; no .bib file of a subdirectory is copied; and the step    *)
(* changes neither the text nor the written document.                      *)
(***************************************************************************)
IsRootBib(p) == Len(p) >= 2 /\ p[Len(p)] = "bib" /\ p[Len(p) - 1] = DOT /\ Slashes(p) = {}

C8_BibCopy ==
  /\ [](pc = "done" =>
          /\ \A p \in DOMAIN disk : IsRootBib(p) => (p \in DOMAIN out /\ out[p] = disk[p])
          /\ <<"t", DOT, "bib">> \notin DOMAIN out
          /\ \A k \in LogIndexes("bib") : \A p \in log[k].files : IsRootBib(p))
  /\ [][pc = "bib" =>
          /\ new_file_data' = new_file_data
          /\ out'[output_file] = out[output_file]]_vars

\* a finished run into a folder that held an older r.bib and another file
W_C8_Overwritten ==
  /\ pc = "done"
  /\ <<"keep">> \in DOMAIN out
  /\ out[<<"r", DOT, "bib">>] = Bytes(<<"r", DOT, "bib">>)
  /\ out[<<"e", DOT, "bib">>] = Bytes(<<"e", DOT, "bib">>)
  /\ <<"s", SL, "t", DOT, "bib">> \in DOMAIN disk

(***************************************************************************)
(* C10 Step order, as the claim states it: nothing touches the output      *)
(* folder before parse_file has returned a text without \input; the        *)
(* graphics copies AND the .bib copies all come before the one write of    *)
(* the document, which writes the rewritten text to the output folder      *)
(* under the name of the main file.                                        *)
(***************************************************************************)
WriteIsRewritten ==
  /\ log # <<>> => (ParseReturned /\ find_amount_of_inputs(return_content) = 0)
  /\ \A j \in LogIndexes("write") : \A k \in LogIndexes("write") : j = k
  /\ \A k \in LogIndexes("write") :
       /\ log[k].files = {output_file}
       /\ log[k].data = remove_path_graphics(return_content)
  /\ \A k \in LogIndexes("copy") :
       \E t \in 1..Len(find_graphics_in_file(return_content)) :
         log[k].files = possible_files(find_graphics_in_file(return_content)[t])
  /\ pc = "done" =>
       (LogIndexes("write") # {} /\ out[output_file] = remove_path_graphics(return_content))

C10_WriteAfterAllCopies ==
  /\ WriteIsRewritten
  /\ \A j \in LogIndexes("copy") \cup LogIndexes("bib") : \A k \in LogIndexes("write") : j < k

(***************************************************************************)
(* C10 Step order, amended: as above, but the graphics copies come before  *)
(* the write of the document and the .bib copies come after it.            *)
(***************************************************************************)
C10_StepOrder ==
  /\ WriteIsRewritten
  /\ \A j \in LogIndexes("copy") : \A k \in LogIndexes("write") : j < k
  /\ \A j \in LogIndexes("write") : \A k \in LogIndexes("bib") : j < k

\* a finished run that copied an image, wrote a rewritten text, copied the .bib files
W_C10_AllSteps ==
  /\ pc = "done"
  /\ LogIndexes("copy") # {}
  /\ LogIndexes("bib") # {}
  /\ \E k \in LogIndexes("write") : log[k].data # return_content

====
